---- MODULE Spec2Model ----
(***************************************************************************)
(* Model of the simulated data-transfer core of the mission dashboard:     *)
(*   SubnetHealthMonitor and SecureTransferManager                         *)
(*     (src/client/utils/avalanche.ts)                                     *)
(*   the useAvalancheSubnet hook (src/unnamed/part_002, lines 273-504)     *)
(*                                                                         *)
(* JavaScript runs each callback to completion, so one action is one       *)
(* macro-task: a call made by the page, or the firing of one timer         *)
(* together with the promise continuations it triggers, up to the next     *)
(* `await` on a timer.                                                     *)
(*                                                                         *)
(* TransferStatus objects are shared by reference between the manager's    *)
(* map, the executor that received them and the array held in the hook's   *)
(* React state.  `transfers` is the heap of these objects; the map and     *)
(* the hook's array hold indices into it.                                  *)
(***************************************************************************)
EXTENDS Integers, Sequences, FiniteSets, TLC

(***************************************************************************)
(* Bounds of the model.                                                    *)
(***************************************************************************)
\* number of requests the manager accepts in one run
MaxTransfers == 2
\* number of 5 s refresh intervals the monitor is followed for
MaxTicks == 6

(***************************************************************************)
(* Program constants.                                                      *)
(***************************************************************************)
\* keys of ISRO_SUBNET_CONFIG
Stations == {"bangalore", "chennai", "delhi", "sriharikota"}
\* ISRO_SUBNET_CONFIG is an object literal, and validateTransferRequest tests
\* membership with the `in` operator, which also finds the names the literal
\* inherits from Object.prototype; one of them stands for all
InheritedKeys == {"toString"}
\* the hub named in getTransferRoute
Hub == "bangalore"
\* const transferSteps = 10
transferSteps == 10
\* the health thresholds of isStationHealthy: rates in thousandths, latency in ms
MinUptime == 950
MinConsensusRate == 950
MaxLatency == 150
\* checkStationHealth clamps the latency of a refreshed snapshot to at most 150
LatencyClampMax == 150
\* the other clamps of checkStationHealth: rates in thousandths, latency in ms
UptimeClampMin == 970
UptimeClampMax == 1000
ConsensusClampMin == 970
ConsensusClampMax == 1000
LatencyClampMin == 30
ThroughputClampMin == 200
ThroughputClampMax == 2000
\* validateTransferRequest: dataSize <= 100 * 1024 * 1024 * 1024.  A size is
\* a pair (gib, rem) = gib * 1024^3 + rem bytes with 0 <= rem < 1024^3, which
\* keeps every number inside TLC's 32-bit integers.
MaxDataSizeGiB == 100
\* initial snapshot written by initializeHealthMonitoring
InitUptime == 990
InitConsensusRate == 980
InitLatency == 50
InitThroughput == 500
\* networkLatency: 50 + Math.random() * 50 stays below 100
InitLatencyHigh == 99

(***************************************************************************)
(* Inputs.                                                                 *)
(***************************************************************************)
\* request ids in the order startTransfer generates them (Date.now() grows)
IdOrder == <<"t1", "t2">>
Ids == {IdOrder[k] : k \in DOMAIN IdOrder}
\* ids the page passes to stop and cancel: an id is unknown to the manager
\* until a request carries it
CallIds == Ids
\* one pair of stations for each shape of route: one station, direct, via the hub
RoutePairs ==
  { <<"chennai", "chennai">>, <<"bangalore", "delhi">>, <<"chennai", "delhi">> }
OneByte == [gib |-> 0, rem |-> 1]
Request(id, fromStation, toStation, dataSize) ==
  [id |-> id, fromStation |-> fromStation, toStation |-> toStation,
   dataSize |-> dataSize]
\* requests passed to initiateTransfer directly: the id "t1" on every route
\* (a second one reuses the id), and one request for each way validation
\* fails; "mars" is no station of the registry, and neither is "toString"
Requests ==
  { Request("t1", p[1], p[2], OneByte) : p \in RoutePairs }
  \cup { Request("", "bangalore", "delhi", OneByte),
         Request("t1", "mars", "delhi", OneByte),
         Request("t1", "toString", "delhi", OneByte),
         Request("t1", "bangalore", "mars", OneByte),
         Request("t1", "bangalore", "delhi", [gib |-> 0, rem |-> 0]),
         Request("t1", "bangalore", "delhi", [gib |-> MaxDataSizeGiB, rem |-> 1]) }
\* arguments of startTransfer
StartArgs ==
  { <<p[1], p[2], OneByte>> : p \in RoutePairs }
  \cup { <<"bangalore", "delhi", [gib |-> MaxDataSizeGiB, rem |-> 0]>> }
\* The monitor is created when the module loads and refreshes every snapshot
\* every 5 s, moving the latency by up to 10 ms and clamping it to [30, 150].
\* By the time the page submits a transfer the latency of a station may have
\* reached the clamp: these are the stations whose latency may stand there,
\* one at a time.
DriftedStations == {"chennai", "delhi"}

\* Each refreshed metric moves by (Math.random() - 0.5) * w with w = 0.01,
\* 0.02, 20 and 100: Math.random() is in [0, 1), so the move is in
\* [-w/2, w/2).  A draw is the four moves of one station in one refresh, in
\* the model's units; every metric has its own Math.random() call.
RandomLow ==
  [uptime |-> -5, consensusRate |-> -10, networkLatency |-> -10, dataThroughput |-> -50]
RandomHigh ==
  [uptime |-> 4, consensusRate |-> 9, networkLatency |-> 9, dataThroughput |-> 49]
RandomMid ==
  [uptime |-> 0, consensusRate |-> 0, networkLatency |-> 0, dataThroughput |-> 0]
Draws == {RandomLow, RandomHigh}
\* the draws of one refresh: the stations that drift draw low or high, each on
\* its own, the others draw 0.5
TickDraws ==
  { [s \in Stations |-> IF s \in DriftedStations THEN d[s] ELSE RandomMid] :
      d \in [DriftedStations -> Draws] }

NoError == "undefined"
NoId == ""
\* the page's calls record what they returned or threw (a thrown error carries
\* no id); a timer callback returns to nobody
NoCall == [op |-> "none", id |-> NoId, result |-> "none"]

VARIABLES
  healthData,       \* SubnetHealthMonitor.healthData: station -> SubnetHealth
  transfers,        \* heap of TransferStatus objects, in creation order
  activeTransfers,  \* SecureTransferManager.activeTransfers: id -> object (0 = absent)
  transferQueue,    \* SecureTransferManager.transferQueue
  exec,             \* per object: the suspended executeTransfer call that owns it
  hookTransfers,    \* useAvalancheSubnet's activeTransfers state: id -> object (0 = absent)
  ret,              \* what the last call made by the page returned or threw
  ticks,            \* number of times the monitor's interval callback has run
  updateInterval,   \* SubnetHealthMonitor.updateInterval: "set" or "null"
  isroDataTransfer, \* storage of the deployed ISRODataTransfer contract
  isroToken,        \* storage of the deployed ISROToken contract
  orchestrator      \* state of a mounted useOrchestrator hook and its calls in flight

healthVars == <<healthData, ticks, updateInterval>>
managerVars == <<transfers, activeTransfers, transferQueue, exec>>
remoteVars == <<isroDataTransfer, isroToken, orchestrator>>
vars == <<healthData, transfers, activeTransfers, transferQueue, exec, hookTransfers, ret,
          ticks, updateInterval, isroDataTransfer, isroToken, orchestrator>>

Min(a, b) == IF a < b THEN a ELSE b
Max(a, b) == IF a > b THEN a ELSE b

(***************************************************************************)
(* SubnetHealthMonitor                                                     *)
(***************************************************************************)
IsHealthyUpToLatencyLimit(stationId) ==
  IF stationId \notin DOMAIN healthData THEN FALSE
  ELSE /\ healthData[stationId].uptime >= MinUptime
       /\ healthData[stationId].consensusRate >= MinConsensusRate
       /\ healthData[stationId].networkLatency <= MaxLatency

IsStationHealthy(stationId) ==
  IF stationId \notin DOMAIN healthData THEN FALSE
  ELSE /\ healthData[stationId].uptime >= MinUptime
       /\ healthData[stationId].consensusRate >= MinConsensusRate
       /\ healthData[stationId].networkLatency < MaxLatency

\* checkStationHealth: the snapshot that replaces baseHealth
CheckStationHealthNoFloor(baseHealth, draw) ==
  [stationId |-> baseHealth.stationId,
   uptime |-> Min(UptimeClampMax, baseHealth.uptime + draw.uptime),
   consensusRate |->
     Max(ConsensusClampMin, Min(ConsensusClampMax, baseHealth.consensusRate + draw.consensusRate)),
   networkLatency |->
     Max(LatencyClampMin, Min(LatencyClampMax, baseHealth.networkLatency + draw.networkLatency)),
   dataThroughput |->
     Max(ThroughputClampMin, Min(ThroughputClampMax, baseHealth.dataThroughput + draw.dataThroughput))]

CheckStationHealthWithoutBase(baseHealth, draw) ==
  [stationId |-> "undefined",
   uptime |->
     Max(UptimeClampMin, Min(UptimeClampMax, baseHealth.uptime + draw.uptime)),
   consensusRate |->
     Max(ConsensusClampMin, Min(ConsensusClampMax, baseHealth.consensusRate + draw.consensusRate)),
   networkLatency |->
     Max(LatencyClampMin, Min(LatencyClampMax, baseHealth.networkLatency + draw.networkLatency)),
   dataThroughput |->
     Max(ThroughputClampMin, Min(ThroughputClampMax, baseHealth.dataThroughput + draw.dataThroughput))]

\* { ...baseHealth, uptime: ..., consensusRate: ..., networkLatency: ..., dataThroughput: ... }
CheckStationHealth(baseHealth, draw) ==
  [stationId |-> baseHealth.stationId,
   uptime |->
     Max(UptimeClampMin, Min(UptimeClampMax, baseHealth.uptime + draw.uptime)),
   consensusRate |->
     Max(ConsensusClampMin, Min(ConsensusClampMax, baseHealth.consensusRate + draw.consensusRate)),
   networkLatency |->
     Max(LatencyClampMin, Min(LatencyClampMax, baseHealth.networkLatency + draw.networkLatency)),
   dataThroughput |->
     Max(ThroughputClampMin, Min(ThroughputClampMax, baseHealth.dataThroughput + draw.dataThroughput))]

\* updateHealthData, the interval callback: every station of the registry gets
\* a refreshed snapshot; the awaits inside resolve without a timer
UpdateHealthData ==
  /\ updateInterval = "set"
  /\ ticks < MaxTicks
  /\ \E draw \in TickDraws :
       healthData' = [s \in Stations |-> CheckStationHealth(healthData[s], draw[s])]
  /\ ticks' = ticks + 1
  /\ ret' = NoCall
  /\ UNCHANGED <<remoteVars, updateInterval, managerVars, hookTransfers>>

\* cleanup: clearInterval and updateInterval = null, when an interval is set
CleanupLeavesInterval ==
  /\ ret' = [op |-> "cleanup", id |-> NoId, result |-> "undefined"]
  /\ UNCHANGED <<remoteVars, healthData, ticks, updateInterval, managerVars, hookTransfers>>

Cleanup ==
  /\ updateInterval' = IF updateInterval # "null" THEN "null" ELSE updateInterval
  /\ ret' = [op |-> "cleanup", id |-> NoId, result |-> "undefined"]
  /\ UNCHANGED <<remoteVars, healthData, ticks, managerVars, hookTransfers>>

\* getStationHealth: the snapshot of the id, or undefined
GetStationHealth(stationId) ==
  /\ ret' = [op |-> "getStationHealth", id |-> stationId,
             result |-> IF stationId \in DOMAIN healthData
                        THEN healthData[stationId] ELSE "undefined"]
  /\ UNCHANGED <<remoteVars, healthVars, managerVars, hookTransfers>>

\* updateHealthData when checkStationHealth raises for the stations in
\* `failing`: the catch inside the loop logs the station and the loop goes on,
\* so the station keeps the snapshot it had.  The log is what the callback
\* leaves behind for the page.
RefreshLog(failing) ==
  [op |-> "updateHealthData", id |-> NoId, result |-> "logged", failed |-> failing]

\* the stations of the registry in the order Object.entries yields them
StationOrder == <<"bangalore", "chennai", "delhi", "sriharikota">>

UpdateAbortsAtFailure(failing) ==
  /\ updateInterval = "set"
  /\ ticks < MaxTicks
  /\ \E draw \in TickDraws :
       healthData' =
         [s \in Stations |->
            IF \E k \in DOMAIN StationOrder :
                 /\ StationOrder[k] \in failing
                 /\ \E j \in k..Len(StationOrder) : StationOrder[j] = s
            THEN healthData[s]
            ELSE CheckStationHealth(healthData[s], draw[s])]
  /\ ticks' = ticks + 1
  /\ ret' = RefreshLog(failing)
  /\ UNCHANGED <<remoteVars, updateInterval, managerVars, hookTransfers>>

UpdateHealthDataCatching(failing) ==
  /\ updateInterval = "set"
  /\ ticks < MaxTicks
  /\ \E draw \in TickDraws :
       healthData' =
         [s \in Stations |->
            IF s \in failing THEN healthData[s]
            ELSE CheckStationHealth(healthData[s], draw[s])]
  /\ ticks' = ticks + 1
  /\ ret' = RefreshLog(failing)
  /\ UNCHANGED <<remoteVars, updateInterval, managerVars, hookTransfers>>

(***************************************************************************)
(* SecureTransferManager                                                   *)
(***************************************************************************)
\* key in ISRO_SUBNET_CONFIG
InConfig(key) == key \in Stations \cup InheritedKeys

ValidateBelowMaximum(request) ==
  /\ request.id # ""
  /\ InConfig(request.fromStation)
  /\ InConfig(request.toStation)
  /\ (request.dataSize.gib > 0 \/ request.dataSize.rem > 0)
  /\ request.dataSize.gib < MaxDataSizeGiB

ValidateTransferRequest(request) ==
  /\ request.id # ""
  /\ InConfig(request.fromStation)
  /\ InConfig(request.toStation)
  /\ (request.dataSize.gib > 0 \/ request.dataSize.rem > 0)
  /\ \/ request.dataSize.gib < MaxDataSizeGiB
     \/ (request.dataSize.gib = MaxDataSizeGiB /\ request.dataSize.rem = 0)

HealthGateSourceOnly(request) == IsStationHealthy(request.fromStation)

HealthGate(request) ==
  /\ IsStationHealthy(request.fromStation)
  /\ IsStationHealthy(request.toStation)

GetTransferRoute(fromStation, toStation) ==
  IF fromStation = toStation THEN <<fromStation>>
  ELSE IF fromStation = Hub \/ toStation = Hub THEN <<fromStation, toStation>>
  ELSE <<fromStation, Hub, toStation>>

\* the manager's fields as one record, so that the methods compose
Manager == [transfers |-> transfers, activeTransfers |-> activeTransfers,
            transferQueue |-> transferQueue, exec |-> exec]

\* lines 247-259: the new TransferStatus, the map entry and the queue entry
NewTransferStatus(request) ==
  [requestId |-> request.id, status |-> "pending", progress |-> 0,
   currentStation |-> request.fromStation, nextStation |-> request.toStation,
   error |-> NoError]

Enqueue(m, request) ==
  LET o == Len(m.transfers) + 1 IN
  [m EXCEPT !.transfers = Append(@, NewTransferStatus(request)),
            !.activeTransfers[request.id] = o,
            !.transferQueue = Append(@, request),
            !.exec = Append(@, [request |-> request, hop |-> 0, step |-> 0, pc |-> "idle"])]

\* simulateStationTransfer, one loop iteration up to its await:
\* progress = Math.min(100, (step + 1) * (100 / transferSteps)), then the map write
StepProgress(step) == Min(100, (step + 1) * (100 \div transferSteps))

SimulateStep(m, o, step) ==
  [m EXCEPT !.transfers[o].progress = StepProgress(step),
            !.activeTransfers[m.transfers[o].requestId] = o,
            !.exec[o].step = step,
            !.exec[o].pc = "await"]

\* executeTransfer, the head of one iteration of its for loop (i is 0-based)
BeginHop(m, o, i) ==
  LET r == m.exec[o].request
      stations == GetTransferRoute(r.fromStation, r.toStation)
      m1 == [m EXCEPT !.transfers[o].currentStation = stations[i + 1],
                      !.transfers[o].nextStation = stations[i + 2],
                      !.exec[o].hop = i]
  IN SimulateStep(m1, o, 0)

\* executeTransfer, line 328: the last map write, after which the call returns
FinishTransfer(m, o) ==
  [m EXCEPT !.activeTransfers[m.exec[o].request.id] = o,
            !.exec[o].pc = "done"]

\* executeTransfer from its first line to its first await
ExecuteTransfer(m, o) ==
  LET r == m.exec[o].request
      stations == GetTransferRoute(r.fromStation, r.toStation)
      m1 == [m EXCEPT !.transfers[o].status = "processing"]
  IN IF 0 < Len(stations) - 1 THEN BeginHop(m1, o, 0) ELSE FinishTransfer(m1, o)

\* processTransferQueue
ProcessNewestOfTwo(m) ==
  IF Len(m.transferQueue) < 2 THEN m
  ELSE LET request == m.transferQueue[Len(m.transferQueue)]
           m1 == [m EXCEPT !.transferQueue = SubSeq(@, 1, Len(@) - 1)]
           o == m1.activeTransfers[request.id]
       IN IF o = 0 THEN m1 ELSE ExecuteTransfer(m1, o)

\* processTransferQueue from its first line to its first await
ProcessTransferQueue(m) ==
  IF Len(m.transferQueue) = 0 THEN m
  ELSE LET request == Head(m.transferQueue)
           m1 == [m EXCEPT !.transferQueue = Tail(@)]
           o == m1.activeTransfers[request.id]
       IN IF o = 0 THEN m1 ELSE ExecuteTransfer(m1, o)

SetManager(m) ==
  /\ transfers' = m.transfers
  /\ activeTransfers' = m.activeTransfers
  /\ transferQueue' = m.transferQueue
  /\ exec' = m.exec

\* initiateTransfer: the whole call, which has no await of its own and runs
\* processTransferQueue up to the first timer before it returns.
InitiateTransfer(request) ==
  IF ~ValidateTransferRequest(request) THEN
    /\ ret' = [op |-> "initiateTransfer", id |-> NoId,
               result |-> "Invalid transfer request"]
    /\ UNCHANGED <<remoteVars, healthVars, managerVars, hookTransfers>>
  ELSE IF ~HealthGate(request) THEN
    /\ ret' = [op |-> "initiateTransfer", id |-> NoId,
               result |-> "One or both stations are unhealthy"]
    /\ UNCHANGED <<remoteVars, healthVars, managerVars, hookTransfers>>
  ELSE
    /\ Len(transfers) < MaxTransfers
    /\ SetManager(ProcessTransferQueue(Enqueue(Manager, request)))
    /\ ret' = [op |-> "initiateTransfer", id |-> request.id, result |-> "id"]
    /\ UNCHANGED <<remoteVars, healthVars, hookTransfers>>

\* executeTransfer resumed
ResumeCompletesEarly(m, o) ==
  LET e == m.exec[o]
      stations == GetTransferRoute(e.request.fromStation, e.request.toStation)
      i == e.hop
      m1 == IF i = Len(stations) - 2
            THEN [m EXCEPT !.transfers[o].status = "completed"]
            ELSE m
  IN IF e.step + 1 < transferSteps THEN SimulateStep(m1, o, e.step + 1)
     ELSE IF i + 1 < Len(stations) - 1 THEN BeginHop(m1, o, i + 1)
     ELSE FinishTransfer(m1, o)

\* the continuation of executeTransfer that one timer of simulateStationTransfer
\* resumes, up to the next timer or the end of the call
ResumeTransfer(m, o) ==
  LET e == m.exec[o]
      stations == GetTransferRoute(e.request.fromStation, e.request.toStation)
      i == e.hop
      m1 == IF i = Len(stations) - 2
            THEN [m EXCEPT !.transfers[o].status = "completed",
                           !.transfers[o].progress = 100]
            ELSE m
  IN IF e.step + 1 < transferSteps THEN SimulateStep(m, o, e.step + 1)
     ELSE IF i + 1 < Len(stations) - 1 THEN BeginHop(m1, o, i + 1)
     ELSE FinishTransfer(m1, o)

TimerStep(o) ==
  /\ exec[o].pc = "await"
  /\ SetManager(ResumeTransfer(Manager, o))
  /\ ret' = NoCall
  /\ UNCHANGED <<remoteVars, healthVars, hookTransfers>>

Lookup(map, id) == IF id \in DOMAIN map THEN map[id] ELSE 0

\* getTransferStatus: the object the map holds for the id (0 for undefined)
GetTransferStatus(transferId) == Lookup(activeTransfers, transferId)

\* getAllTransfers: the objects the map holds
GetAllTransfers == {activeTransfers[id] : id \in DOMAIN activeTransfers} \ {0}

\* SecureTransferManager.cancelTransfer
CanCancelOrProcessing(status) == status \in {"pending", "processing"}

CanCancel(status) == status = "pending"

ManagerCancelNoMessage(m, transferId) ==
  LET o == Lookup(m.activeTransfers, transferId) IN
  IF o # 0 /\ CanCancel(m.transfers[o].status)
  THEN [m EXCEPT !.transfers[o].status = "failed",
                 !.activeTransfers[transferId] = o]
  ELSE m

ManagerCancel(m, transferId) ==
  LET o == Lookup(m.activeTransfers, transferId) IN
  IF o # 0 /\ CanCancel(m.transfers[o].status)
  THEN [m EXCEPT !.transfers[o].status = "failed",
                 !.transfers[o].error = "Transfer cancelled by user",
                 !.activeTransfers[transferId] = o]
  ELSE m

ManagerCancelResult(m, transferId) ==
  LET o == Lookup(m.activeTransfers, transferId) IN
  o # 0 /\ CanCancel(m.transfers[o].status)

(***************************************************************************)
(* useAvalancheSubnet                                                      *)
(***************************************************************************)
Bool(b) == IF b THEN "true" ELSE "false"

\* getTransferRoute, the hook's own copy of the routing rule
HookRouteViaHub(fromStation, toStation) ==
  IF fromStation = toStation THEN <<fromStation>>
  ELSE <<fromStation, "bangalore", toStation>>

HookGetTransferRoute(fromStation, toStation) ==
  IF fromStation = toStation THEN <<fromStation>>
  ELSE IF fromStation = "bangalore" \/ toStation = "bangalore"
       THEN <<fromStation, toStation>>
       ELSE <<fromStation, "bangalore", toStation>>

\* startTransfer builds its id from Date.now() and Math.random(): the next id
\* no request has used
UsedIds == {transfers[o].requestId : o \in DOMAIN transfers}
FreshIds ==
  {IdOrder[k] : k \in {j \in DOMAIN IdOrder :
                         /\ IdOrder[j] \notin UsedIds
                         /\ \A h \in 1..(j - 1) : IdOrder[h] \in UsedIds}}

\* generateChecksum(new ArrayBuffer(dataSize)): no engine allocates 100 GiB
AllocatesArrayBuffer(dataSize) == dataSize.gib < MaxDataSizeGiB

StartTransfer(fromStation, toStation, dataSize) ==
  IF ~AllocatesArrayBuffer(dataSize) THEN
    /\ ret' = [op |-> "startTransfer", id |-> NoId, result |-> "RangeError"]
    /\ UNCHANGED <<remoteVars, healthVars, managerVars, hookTransfers>>
  ELSE
    \E id \in FreshIds :
      InitiateTransfer(Request(id, fromStation, toStation, dataSize))

\* the transfer-monitoring effect's interval callback
UpdateTransferData ==
  /\ hookTransfers' = activeTransfers
  /\ ret' = NoCall
  /\ UNCHANGED <<remoteVars, healthVars, managerVars>>

\* stopTransfer
StopTransferNoMessage(transferId) ==
  LET o == Lookup(hookTransfers, transferId) IN
  IF o # 0 /\ transfers[o].status = "processing" THEN
    /\ transfers' = [transfers EXCEPT ![o].status = "failed"]
    /\ ret' = [op |-> "stopTransfer", id |-> transferId, result |-> "true"]
    /\ UNCHANGED <<remoteVars, healthVars, activeTransfers, transferQueue, exec, hookTransfers>>
  ELSE
    /\ ret' = [op |-> "stopTransfer", id |-> transferId, result |-> "false"]
    /\ UNCHANGED <<remoteVars, healthVars, managerVars, hookTransfers>>

\* stopTransfer
StopEveryTransfer(transferId) ==
  LET o == Lookup(hookTransfers, transferId) IN
  IF o # 0 /\ transfers[o].status = "processing" THEN
    /\ transfers' = [p \in DOMAIN transfers |->
                       IF transfers[p].status = "processing"
                       THEN [transfers[p] EXCEPT !.status = "failed",
                                                 !.error = "Transfer stopped by user"]
                       ELSE transfers[p]]
    /\ ret' = [op |-> "stopTransfer", id |-> transferId, result |-> "true"]
    /\ UNCHANGED <<remoteVars, healthVars, activeTransfers, transferQueue, exec, hookTransfers>>
  ELSE
    /\ ret' = [op |-> "stopTransfer", id |-> transferId, result |-> "false"]
    /\ UNCHANGED <<remoteVars, healthVars, managerVars, hookTransfers>>

\* stopTransfer reads the array of the last render and writes to the object it
\* finds there, which is the object the manager holds
StopTransfer(transferId) ==
  LET o == Lookup(hookTransfers, transferId) IN
  IF o # 0 /\ transfers[o].status = "processing" THEN
    /\ transfers' = [transfers EXCEPT ![o].status = "failed",
                                      ![o].error = "Transfer stopped by user"]
    /\ ret' = [op |-> "stopTransfer", id |-> transferId, result |-> "true"]
    /\ UNCHANGED <<remoteVars, healthVars, activeTransfers, transferQueue, exec, hookTransfers>>
  ELSE
    /\ ret' = [op |-> "stopTransfer", id |-> transferId, result |-> "false"]
    /\ UNCHANGED <<remoteVars, healthVars, managerVars, hookTransfers>>

CancelTransfer(transferId) ==
  LET cancelled == ManagerCancelResult(Manager, transferId)
      m == ManagerCancel(Manager, transferId)
  IN /\ SetManager(m)
     /\ hookTransfers' = IF cancelled THEN m.activeTransfers ELSE hookTransfers
     /\ ret' = [op |-> "cancelTransfer", id |-> transferId, result |-> Bool(cancelled)]
     /\ UNCHANGED <<remoteVars, healthVars>>

(***************************************************************************)
(* contracts/ISRODataTransfer.sol.  One action is one mined transaction; a *)
(* transaction that reverts leaves the storage as it was.  Timestamps      *)
(* (registrationTime, lastValidationTime, timestamp) and the strings that  *)
(* are only stored (metadata, station name) are left out; minimumStake and *)
(* transferTimeout are written but never read by the contract.             *)
(***************************************************************************)
ZeroAddress == "0x0"

\* msg.sender of the constructors: owner() of both contracts
Deployer == "deployer"

Accounts == {Deployer, "stationA", "stationB"}

Addresses == Accounts \cup {ZeroAddress}

\* maxDataSize as deployed, in GiB
ContractMaxDataSize == 100

DataSizes == {0, ContractMaxDataSize, ContractMaxDataSize + 1}

Checksums == {"", "sha256"}

\* block.number stays below this
MaxBlock == 2

\* keccak256 over the packed arguments: distinct arguments give distinct ids
\* (block.timestamp is a function of block.number)
TransferId(sender, toStation, dataSize, checksum, blockNumber) ==
  <<sender, toStation, dataSize, checksum, blockNumber>>

\* an id under which nothing was ever stored
UnknownTransferId == <<ZeroAddress, ZeroAddress, 0, "", 0>>

NoStation ==
  [isActive |-> FALSE, totalTransfers |-> 0, successfulTransfers |-> 0,
   failedTransfers |-> 0]

NoValidator == [isActive |-> FALSE, totalValidations |-> 0, successfulValidations |-> 0]

\* _addValidator
AddValidatorEntry(c, validatorAddress) ==
  [c EXCEPT !.validators[validatorAddress] =
              [isActive |-> TRUE, totalValidations |-> 0, successfulValidations |-> 0],
            !.isValidator[validatorAddress] = TRUE]

\* the storage after the constructor, with the chain's block number
ISRODataTransferDeployed ==
  AddValidatorEntry(
    [transfers |-> {},
     stations |-> [a \in Addresses |-> NoStation],
     validators |-> [a \in Addresses |-> NoValidator],
     isStation |-> [a \in Addresses |-> FALSE],
     isValidator |-> [a \in Addresses |-> FALSE],
     totalTransfers |-> 0,
     activeTransfers |-> 0,
     maxDataSize |-> ContractMaxDataSize,
     blockNumber |-> 1],
    Deployer)

\* modifier transferExists
TransferExists(c, transferId) == \E t \in c.transfers : t.transferId = transferId

StoredTransfer(c, transferId) == CHOOSE t \in c.transfers : t.transferId = transferId

SetTransferStatus(c, transferId, status) ==
  {IF t.transferId = transferId THEN [t EXCEPT !.status = status] ELSE t : t \in c.transfers}

Reverted(c, message) == [storage |-> c, result |-> message]

Succeeded(c) == [storage |-> c, result |-> "ok"]

ContractInitiateTransfer(c, sender, toStation, dataSize, checksum) ==
  LET transferId == TransferId(sender, toStation, dataSize, checksum, c.blockNumber)
  IN IF ~(c.isStation[sender] /\ c.stations[sender].isActive)
       THEN Reverted(c, "ISRO: Station not active")
     ELSE IF toStation = ZeroAddress THEN Reverted(c, "ISRO: Invalid recipient station")
     ELSE IF toStation = sender THEN Reverted(c, "ISRO: Cannot transfer to self")
     ELSE IF ~c.isStation[toStation]
       THEN Reverted(c, "ISRO: Recipient not a registered station")
     ELSE IF ~c.stations[toStation].isActive
       THEN Reverted(c, "ISRO: Recipient station not active")
     ELSE IF ~(dataSize > 0 /\ dataSize <= c.maxDataSize)
       THEN Reverted(c, "ISRO: Invalid data size")
     ELSE IF checksum = "" THEN Reverted(c, "ISRO: Checksum required")
     ELSE IF TransferExists(c, transferId) THEN Reverted(c, "ISRO: Transfer ID collision")
     ELSE Succeeded(
            [c EXCEPT !.transfers = @ \cup {[transferId |-> transferId,
                                             fromStation |-> sender,
                                             toStation |-> toStation,
                                             status |-> "Pending"]},
                      !.totalTransfers = @ + 1,
                      !.activeTransfers = @ + 1,
                      !.stations[sender].totalTransfers = @ + 1,
                      !.stations[toStation].totalTransfers = @ + 1])

ContractCompleteTransfer(c, sender, transferId, finalChecksum) ==
  IF ~c.isValidator[sender] THEN Reverted(c, "ISRO: Caller is not a validator")
  ELSE IF ~TransferExists(c, transferId) THEN Reverted(c, "ISRO: Transfer does not exist")
  ELSE IF StoredTransfer(c, transferId).status # "Processing"
    THEN Reverted(c, "ISRO: Transfer not in processing state")
  ELSE IF finalChecksum = "" THEN Reverted(c, "ISRO: Final checksum required")
  ELSE LET transfer == StoredTransfer(c, transferId)
       IN Succeeded(
            [c EXCEPT !.transfers = SetTransferStatus(c, transferId, "Completed"),
                      !.activeTransfers = @ - 1,
                      !.stations[transfer.fromStation].successfulTransfers = @ + 1,
                      !.stations[transfer.toStation].successfulTransfers = @ + 1,
                      !.validators[sender].totalValidations = @ + 1,
                      !.validators[sender].successfulValidations = @ + 1])

ContractFailTransfer(c, sender, transferId, reason) ==
  IF ~c.isValidator[sender] THEN Reverted(c, "ISRO: Caller is not a validator")
  ELSE IF ~TransferExists(c, transferId) THEN Reverted(c, "ISRO: Transfer does not exist")
  ELSE IF StoredTransfer(c, transferId).status # "Processing"
    THEN Reverted(c, "ISRO: Transfer not in processing state")
  ELSE IF reason = "" THEN Reverted(c, "ISRO: Failure reason required")
  ELSE LET transfer == StoredTransfer(c, transferId)
       IN Succeeded(
            [c EXCEPT !.transfers = SetTransferStatus(c, transferId, "Failed"),
                      !.activeTransfers = @ - 1,
                      !.stations[transfer.fromStation].failedTransfers = @ + 1,
                      !.stations[transfer.toStation].failedTransfers = @ + 1,
                      !.validators[sender].totalValidations = @ + 1])

ContractCancelTransfer(c, sender, transferId) ==
  IF ~TransferExists(c, transferId) THEN Reverted(c, "ISRO: Transfer does not exist")
  ELSE IF StoredTransfer(c, transferId).status # "Pending"
    THEN Reverted(c, "ISRO: Transfer not pending")
  ELSE IF ~(sender = StoredTransfer(c, transferId).fromStation \/ sender = Deployer)
    THEN Reverted(c, "ISRO: Only sender or owner can cancel")
  ELSE Succeeded([c EXCEPT !.transfers = SetTransferStatus(c, transferId, "Cancelled"),
                           !.activeTransfers = @ - 1])

ContractRegisterStation(c, sender, stationAddress, stationName) ==
  IF sender # Deployer THEN Reverted(c, "Ownable: caller is not the owner")
  ELSE IF stationAddress = ZeroAddress THEN Reverted(c, "ISRO: Invalid station address")
  ELSE IF c.isStation[stationAddress] THEN Reverted(c, "ISRO: Station already registered")
  ELSE IF stationName = "" THEN Reverted(c, "ISRO: Station name required")
  ELSE Succeeded([c EXCEPT !.stations[stationAddress] = [NoStation EXCEPT !.isActive = TRUE],
                           !.isStation[stationAddress] = TRUE])

ContractUpdateStationStatus(c, sender, stationAddress, isActive) ==
  IF sender # Deployer THEN Reverted(c, "Ownable: caller is not the owner")
  ELSE IF ~c.isStation[stationAddress] THEN Reverted(c, "ISRO: Station not registered")
  ELSE Succeeded([c EXCEPT !.stations[stationAddress].isActive = isActive])

ContractAddValidator(c, sender, validatorAddress) ==
  IF sender # Deployer THEN Reverted(c, "Ownable: caller is not the owner")
  ELSE IF validatorAddress = ZeroAddress THEN Reverted(c, "ISRO: Invalid validator address")
  ELSE IF c.isValidator[validatorAddress] THEN Reverted(c, "ISRO: Validator already exists")
  ELSE Succeeded(AddValidatorEntry(c, validatorAddress))

ContractRemoveValidator(c, sender, validatorAddress) ==
  IF sender # Deployer THEN Reverted(c, "Ownable: caller is not the owner")
  ELSE IF ~c.isValidator[validatorAddress] THEN Reverted(c, "ISRO: Validator not found")
  ELSE IF validatorAddress = Deployer
    THEN Reverted(c, "ISRO: Cannot remove owner as validator")
  ELSE Succeeded([c EXCEPT !.isValidator[validatorAddress] = FALSE,
                           !.validators[validatorAddress] = NoValidator])

ContractUpdateSystemParams(c, sender, maxDataSize) ==
  IF sender # Deployer THEN Reverted(c, "Ownable: caller is not the owner")
  ELSE Succeeded([c EXCEPT !.maxDataSize = maxDataSize])

\* the ids a caller can name: those of the stored transfers and one of none
KnownTransferIds == {t.transferId : t \in isroDataTransfer.transfers} \cup {UnknownTransferId}

\* a call that names no stored transfer
NoTransfer == <<>>

\* callers and recipients of the calls
Callers == {Deployer, "stationA"}

Recipients == {ZeroAddress, "stationA", "stationB"}

\* one transaction sent to ISRODataTransfer is mined; of its arguments the
\* result keeps the caller and the transfer id
DataTransferTx(call, sender, args, outcome) ==
  /\ isroDataTransfer' = outcome.storage
  /\ ret' = [op |-> call, id |-> NoId, sender |-> sender, transfer |-> args,
             result |-> outcome.result]
  /\ UNCHANGED <<healthVars, managerVars, hookTransfers, isroToken, orchestrator>>

InitiateTransferTx ==
  \E sender \in Callers, toStation \in Recipients, dataSize \in DataSizes,
     checksum \in Checksums :
    DataTransferTx("ISRODataTransfer.initiateTransfer", sender, NoTransfer,
                   ContractInitiateTransfer(isroDataTransfer, sender, toStation, dataSize,
                                            checksum))

CompleteTransferTx ==
  \E sender \in Callers, transferId \in KnownTransferIds, finalChecksum \in Checksums :
    DataTransferTx("ISRODataTransfer.completeTransfer", sender, transferId,
                   ContractCompleteTransfer(isroDataTransfer, sender, transferId,
                                            finalChecksum))

FailTransferTx ==
  \E sender \in Callers, transferId \in KnownTransferIds, reason \in {"", "timeout"} :
    DataTransferTx("ISRODataTransfer.failTransfer", sender, transferId,
                   ContractFailTransfer(isroDataTransfer, sender, transferId, reason))

CancelTransferTx ==
  \E sender \in Accounts, transferId \in KnownTransferIds :
    DataTransferTx("ISRODataTransfer.cancelTransfer", sender, transferId,
                   ContractCancelTransfer(isroDataTransfer, sender, transferId))

RegisterStationTx ==
  \E sender \in Callers, stationAddress \in Recipients,
     stationName \in {"", "ISRO Bangalore"} :
    DataTransferTx("ISRODataTransfer.registerStation", sender, NoTransfer,
                   ContractRegisterStation(isroDataTransfer, sender, stationAddress,
                                           stationName))

UpdateStationStatusTx ==
  \E sender \in Callers, stationAddress \in {"stationB"}, isActive \in BOOLEAN :
    DataTransferTx("ISRODataTransfer.updateStationStatus", sender, NoTransfer,
                   ContractUpdateStationStatus(isroDataTransfer, sender, stationAddress,
                                               isActive))

AddValidatorTx ==
  \E sender \in Callers, validatorAddress \in Addresses \ {"stationB"} :
    DataTransferTx("ISRODataTransfer.addValidator", sender, NoTransfer,
                   ContractAddValidator(isroDataTransfer, sender, validatorAddress))

RemoveValidatorTx ==
  \E sender \in Callers, validatorAddress \in Addresses \ {"stationB"} :
    DataTransferTx("ISRODataTransfer.removeValidator", sender, NoTransfer,
                   ContractRemoveValidator(isroDataTransfer, sender, validatorAddress))

UpdateSystemParamsTx ==
  \E sender \in Callers, maxDataSize \in {0, ContractMaxDataSize} :
    DataTransferTx("ISRODataTransfer.updateSystemParams", sender, NoTransfer,
                   ContractUpdateSystemParams(isroDataTransfer, sender, maxDataSize))

\* the chain moves to the next block
MineBlock ==
  /\ isroDataTransfer.blockNumber < MaxBlock
  /\ isroDataTransfer' = [isroDataTransfer EXCEPT !.blockNumber = @ + 1]
  /\ UNCHANGED <<healthVars, managerVars, hookTransfers, ret, isroToken, orchestrator>>

NextContract ==
  \/ InitiateTransferTx
  \/ CompleteTransferTx
  \/ FailTransferTx
  \/ CancelTransferTx
  \/ RegisterStationTx
  \/ UpdateStationStatusTx
  \/ AddValidatorTx
  \/ RemoveValidatorTx
  \/ UpdateSystemParamsTx
  \/ MineBlock

(***************************************************************************)
(* contracts/ISROToken.sol.  Amounts are counted in units of the deployed  *)
(* minimumStake (1000 ISRO).  The reward fields (stakingTime,              *)
(* lastRewardTime, accumulatedRewards), which _updateRewards writes and no *)
(* staking call reads, are left out, and with them claimRewards.           *)
(***************************************************************************)
\* minimumStake and validatorMinimumStake as deployed
TokenMinimumStake == 1

ValidatorMinimumStake == 10

\* the supply minted to the deployer stays at this many units
TokenSupply == 30

TokenContract == "ISROToken"

TokenHolders == {Deployer, "stationA"}

\* the amounts the callers pass: nothing, too little for a validator, one and
\* two validator stakes
Amounts == {0, TokenMinimumStake, ValidatorMinimumStake, 2 * ValidatorMinimumStake}

NoStake == [stakedAmount |-> 0, isActive |-> FALSE]

\* the storage after the constructor
ISROTokenDeployed ==
  [balances |-> [a \in TokenHolders \cup {TokenContract} |->
                   IF a = Deployer THEN TokenSupply ELSE 0],
   stakingInfo |-> [a \in TokenHolders |-> NoStake],
   validatorStakes |-> [a \in TokenHolders |-> NoStake],
   isValidator |-> [a \in TokenHolders |-> FALSE],
   totalStaked |-> 0,
   totalValidatorStaked |-> 0]

\* ERC20._transfer, after its balance check
MoveTokens(c, from, to, amount) ==
  [c EXCEPT !.balances = [@ EXCEPT ![from] = @ - amount, ![to] = @ + amount]]

TokenStake(c, sender, amount) ==
  IF amount = 0 THEN Reverted(c, "ISRO: Cannot stake 0 tokens")
  ELSE IF amount < TokenMinimumStake
    THEN Reverted(c, "ISRO: Below minimum stake requirement")
  ELSE IF c.balances[sender] < amount THEN Reverted(c, "ISRO: Insufficient token balance")
  ELSE LET moved == MoveTokens(c, sender, TokenContract, amount)
       IN Succeeded(
            [moved EXCEPT
               !.stakingInfo[sender] =
                 IF c.stakingInfo[sender].isActive
                 THEN [@ EXCEPT !.stakedAmount = @ + amount]
                 ELSE [stakedAmount |-> amount, isActive |-> TRUE],
               !.totalStaked = @ + amount])

TokenStakeAsValidator(c, sender, amount) ==
  IF amount = 0 THEN Reverted(c, "ISRO: Cannot stake 0 tokens")
  ELSE IF amount < ValidatorMinimumStake
    THEN Reverted(c, "ISRO: Below validator minimum stake")
  ELSE IF c.balances[sender] < amount THEN Reverted(c, "ISRO: Insufficient token balance")
  ELSE IF ~c.isValidator[sender] THEN Reverted(c, "ISRO: Caller is not a validator")
  ELSE LET moved == MoveTokens(c, sender, TokenContract, amount)
       IN Succeeded(
            [moved EXCEPT
               !.validatorStakes[sender] =
                 IF c.validatorStakes[sender].isActive
                 THEN [@ EXCEPT !.stakedAmount = @ + amount]
                 ELSE [stakedAmount |-> amount, isActive |-> TRUE],
               !.totalStaked = @ + amount,
               !.totalValidatorStaked = @ + amount])

\* unstake; a subtraction below zero is a checked-arithmetic panic
TokenUnstake(c, sender, amount) ==
  LET alsoValidator == c.isValidator[sender] /\ c.validatorStakes[sender].isActive
  IN IF c.stakingInfo[sender].stakedAmount = 0 THEN Reverted(c, "ISRO: No stake found")
     ELSE IF amount = 0 THEN Reverted(c, "ISRO: Cannot unstake 0 tokens")
     ELSE IF c.stakingInfo[sender].stakedAmount < amount
       THEN Reverted(c, "ISRO: Insufficient staked amount")
     ELSE IF c.totalStaked < amount THEN Reverted(c, "Panic(0x11)")
     ELSE IF alsoValidator /\ c.validatorStakes[sender].stakedAmount < amount
       THEN Reverted(c, "Panic(0x11)")
     ELSE IF alsoValidator /\ c.totalValidatorStaked < amount
       THEN Reverted(c, "Panic(0x11)")
     ELSE IF c.balances[TokenContract] < amount
       THEN Reverted(c, "ERC20: transfer amount exceeds balance")
     ELSE LET moved == MoveTokens(c, TokenContract, sender, amount)
              left == c.stakingInfo[sender].stakedAmount - amount
          IN Succeeded(
               [moved EXCEPT
                  !.stakingInfo[sender] = [stakedAmount |-> left, isActive |-> left # 0],
                  !.totalStaked = @ - amount,
                  !.validatorStakes[sender].stakedAmount =
                    IF alsoValidator THEN @ - amount ELSE @,
                  !.totalValidatorStaked = IF alsoValidator THEN @ - amount ELSE @])

TokenAddValidator(c, sender, validator) ==
  IF sender # Deployer THEN Reverted(c, "Ownable: caller is not the owner")
  ELSE IF validator = ZeroAddress THEN Reverted(c, "ISRO: Invalid validator address")
  ELSE IF c.isValidator[validator] THEN Reverted(c, "ISRO: Validator already exists")
  ELSE Succeeded([c EXCEPT !.isValidator[validator] = TRUE])

TokenRemoveValidator(c, sender, validator) ==
  IF sender # Deployer THEN Reverted(c, "Ownable: caller is not the owner")
  ELSE IF validator = ZeroAddress \/ ~c.isValidator[validator]
    THEN Reverted(c, "ISRO: Validator not found")
  ELSE Succeeded([c EXCEPT !.isValidator[validator] = FALSE])

\* ERC20.transfer
TokenTransfer(c, sender, to, amount) ==
  IF to = ZeroAddress THEN Reverted(c, "ERC20: transfer to the zero address")
  ELSE IF c.balances[sender] < amount
    THEN Reverted(c, "ERC20: transfer amount exceeds balance")
  ELSE Succeeded(MoveTokens(c, sender, to, amount))

\* one transaction sent to ISROToken is mined
TokenTx(call, sender, amount, outcome) ==
  /\ isroToken' = outcome.storage
  /\ ret' = [op |-> call, id |-> NoId, sender |-> sender, amount |-> amount,
             result |-> outcome.result]
  /\ UNCHANGED <<healthVars, managerVars, hookTransfers, isroDataTransfer, orchestrator>>

StakeTx ==
  \E sender \in TokenHolders, amount \in Amounts \ {TokenMinimumStake} :
    TokenTx("ISROToken.stake", sender, amount, TokenStake(isroToken, sender, amount))

StakeAsValidatorTx ==
  \E sender \in TokenHolders, amount \in Amounts :
    TokenTx("ISROToken.stakeAsValidator", sender, amount,
            TokenStakeAsValidator(isroToken, sender, amount))

UnstakeTx ==
  \E sender \in TokenHolders, amount \in Amounts \ {TokenMinimumStake} :
    TokenTx("ISROToken.unstake", sender, amount, TokenUnstake(isroToken, sender, amount))

TokenAddValidatorTx ==
  \E sender \in TokenHolders, validator \in {ZeroAddress, "stationA"} :
    TokenTx("ISROToken.addValidator", sender, 0,
            TokenAddValidator(isroToken, sender, validator))

TokenRemoveValidatorTx ==
  \E sender \in TokenHolders, validator \in {ZeroAddress, "stationA"} :
    TokenTx("ISROToken.removeValidator", sender, 0,
            TokenRemoveValidator(isroToken, sender, validator))

TokenTransferTx ==
  \E sender \in TokenHolders, to \in {ZeroAddress, "stationA"},
     amount \in {ValidatorMinimumStake} :
    TokenTx("ISROToken.transfer", sender, amount,
            TokenTransfer(isroToken, sender, to, amount))

NextToken ==
  \/ StakeTx
  \/ StakeAsValidatorTx
  \/ UnstakeTx
  \/ TokenAddValidatorTx
  \/ TokenRemoveValidatorTx
  \/ TokenTransferTx

(***************************************************************************)
(* client/hooks/useOrchestrator.ts.  One action is the start of a call up  *)
(* to its first await, or the settling of the request a call is waiting    *)
(* for with the continuation that follows it.  Each of the three calls has *)
(* at most one instance in flight.                                         *)
(***************************************************************************)
\* what a request of api-client.ts resolves to: a body, a success without a
\* body, or a failure with its message (the client catches every rejection)
Responses == {"data", "empty", "HTTP error"}

\* the hook after its first render
UseOrchestratorMounted ==
  [status |-> "null", isLoading |-> FALSE, error |-> "null", isConnected |-> FALSE,
   refreshStatus |-> "idle", runMission |-> "idle", runIntegratedMission |-> "idle"]

\* the hook's state and the value the settled call resolved to
OrchestratorStep(call, next, result) ==
  /\ orchestrator' = next
  /\ ret' = [op |-> call, id |-> NoId, result |-> result]
  /\ UNCHANGED <<healthVars, managerVars, hookTransfers, isroDataTransfer, isroToken>>

\* the message the catch block stores for a response that is not a success
ErrorMessage(response, fallback) == IF response = "empty" THEN fallback ELSE response

\* refreshStatus up to await apiClient.healthCheck()
RefreshStatus ==
  /\ orchestrator.refreshStatus = "idle"
  /\ OrchestratorStep("refreshStatus",
                      [orchestrator EXCEPT !.isLoading = TRUE, !.error = "null",
                                           !.refreshStatus = "healthCheck"],
                      "pending")

\* healthCheck resolves (to true or false, which the hook does not read)
HealthCheckSettles ==
  /\ orchestrator.refreshStatus = "healthCheck"
  /\ OrchestratorStep("refreshStatus",
                      [orchestrator EXCEPT !.isConnected = TRUE,
                                           !.refreshStatus = "getStatus"],
                      "pending")

\* getStatus resolves: try, catch and finally of refreshStatus
GetStatusSettles(response) ==
  /\ orchestrator.refreshStatus = "getStatus"
  /\ OrchestratorStep("refreshStatus",
                      IF response = "data"
                      THEN [orchestrator EXCEPT !.status = "status", !.isLoading = FALSE,
                                                !.refreshStatus = "idle"]
                      ELSE [orchestrator EXCEPT
                              !.error = ErrorMessage(response, "Failed to get status"),
                              !.isConnected = FALSE, !.status = "null",
                              !.isLoading = FALSE, !.refreshStatus = "idle"],
                      "undefined")

\* runMission up to await apiClient.runMission(mission)
RunMission ==
  /\ orchestrator.runMission = "idle"
  /\ OrchestratorStep("runMission",
                      [orchestrator EXCEPT !.isLoading = TRUE, !.error = "null",
                                           !.runMission = "runMission"],
                      "pending")

\* the mission request resolves: try, catch and finally of runMission
RunMissionSettles(response) ==
  /\ orchestrator.runMission = "runMission"
  /\ OrchestratorStep("runMission",
                      IF response = "data"
                      THEN [orchestrator EXCEPT !.isLoading = FALSE, !.runMission = "idle"]
                      ELSE [orchestrator EXCEPT
                              !.error = ErrorMessage(response, "Mission failed"),
                              !.isLoading = FALSE, !.runMission = "idle"],
                      IF response = "data" THEN "result" ELSE "null")

\* runIntegratedMission up to await apiClient.runIntegratedMission(mission)
RunIntegratedMission ==
  /\ orchestrator.runIntegratedMission = "idle"
  /\ OrchestratorStep("runIntegratedMission",
                      [orchestrator EXCEPT !.isLoading = TRUE, !.error = "null",
                                           !.runIntegratedMission = "runIntegratedMission"],
                      "pending")

RunIntegratedMissionSettles(response) ==
  /\ orchestrator.runIntegratedMission = "runIntegratedMission"
  /\ OrchestratorStep("runIntegratedMission",
                      IF response = "data"
                      THEN [orchestrator EXCEPT !.isLoading = FALSE,
                                                !.runIntegratedMission = "idle"]
                      ELSE [orchestrator EXCEPT
                              !.error = ErrorMessage(response, "Integrated mission failed"),
                              !.isLoading = FALSE, !.runIntegratedMission = "idle"],
                      IF response = "data" THEN "result" ELSE "null")

NextOrchestrator ==
  \/ RefreshStatus
  \/ HealthCheckSettles
  \/ \E response \in Responses : GetStatusSettles(response)
  \/ RunMission
  \/ \E response \in Responses : RunMissionSettles(response)
  \/ RunIntegratedMission
  \/ \E response \in Responses : RunIntegratedMissionSettles(response)

\* both contracts as deployed and the orchestrator hook as mounted
InitRemote ==
  /\ isroDataTransfer = ISRODataTransferDeployed
  /\ isroToken = ISROTokenDeployed
  /\ orchestrator = UseOrchestratorMounted

\* The state in which the page starts to use the transfer panel: the monitor
\* holds one snapshot per station, the manager and the hook hold nothing.
Init ==
  /\ \E bad \in {{}} \cup {{s} : s \in DriftedStations} :
       healthData =
         [s \in Stations |->
            [stationId |-> s, uptime |-> InitUptime, consensusRate |-> InitConsensusRate,
             networkLatency |-> IF s \in bad THEN LatencyClampMax ELSE InitLatency,
             dataThroughput |-> InitThroughput]]
  /\ transfers = <<>>
  /\ activeTransfers = [id \in Ids |-> 0]
  /\ transferQueue = <<>>
  /\ exec = <<>>
  /\ hookTransfers = [id \in Ids |-> 0]
  /\ ret = NoCall
  /\ ticks = 0
  /\ updateInterval = "set"
  /\ InitRemote

Next ==
  \/ \E request \in Requests : InitiateTransfer(request)
  \/ \E a \in StartArgs : StartTransfer(a[1], a[2], a[3])
  \/ \E o \in DOMAIN transfers : TimerStep(o)
  \/ UpdateTransferData
  \/ \E id \in CallIds : StopTransfer(id)
  \/ \E id \in CallIds : CancelTransfer(id)

Spec == Init /\ [][Next]_vars

(***************************************************************************)
(* cancelTransfer on its own.  Every call of initiateTransfer runs the     *)
(* executor up to its first timer before it returns, so in Spec no call    *)
(* of cancelTransfer ever meets a 'pending' entry.  SpecCancel applies the *)
(* method to the entries its parameter type allows: a map of up to         *)
(* MaxTransfers TransferStatus objects of any of the four statuses.        *)
(***************************************************************************)
TransferStatuses == {"pending", "processing", "completed", "failed"}

StatusObjects ==
  { [requestId |-> id, status |-> st, progress |-> pr,
     currentStation |-> "chennai", nextStation |-> "delhi",
     error |-> IF st = "failed" THEN "Transfer stopped by user" ELSE NoError] :
       id \in Ids, st \in TransferStatuses, pr \in {0, 10, 100} }

InitCancel ==
  /\ healthData =
       [s \in Stations |->
          [stationId |-> s, uptime |-> InitUptime, consensusRate |-> InitConsensusRate,
           networkLatency |-> InitLatency, dataThroughput |-> InitThroughput]]
  /\ \E n \in 1..Min(MaxTransfers, Len(IdOrder)) :
       /\ transfers \in [1..n -> StatusObjects]
       /\ \A o \in 1..n : transfers[o].requestId = IdOrder[o]
       /\ activeTransfers = [id \in Ids |-> IF \E o \in 1..n : IdOrder[o] = id
                                          THEN CHOOSE o \in 1..n : IdOrder[o] = id
                                          ELSE 0]
       /\ exec = [o \in 1..n |->
                    [request |-> Request(IdOrder[o], "chennai", "delhi", OneByte),
                     hop |-> 0, step |-> 0, pc |-> "done"]]
  /\ transferQueue = <<>>
  /\ hookTransfers = [id \in Ids |-> 0]
  /\ ret = NoCall
  /\ ticks = 0
  /\ updateInterval = "set"
  /\ InitRemote

NextCancel ==
  \/ \E id \in CallIds : CancelTransfer(id)
  \/ UpdateTransferData

SpecCancel == InitCancel /\ [][NextCancel]_vars

(***************************************************************************)
(* The health monitor on its own: the snapshots written by                 *)
(* initializeHealthMonitoring, refreshed by the interval callback.         *)
(***************************************************************************)
InitHealth ==
  /\ \E latency \in [DriftedStations -> {InitLatency, InitLatencyHigh}] :
       healthData =
         [s \in Stations |->
            [stationId |-> s, uptime |-> InitUptime, consensusRate |-> InitConsensusRate,
             networkLatency |-> IF s \in DriftedStations THEN latency[s] ELSE InitLatency,
             dataThroughput |-> InitThroughput]]
  /\ transfers = <<>>
  /\ activeTransfers = [id \in Ids |-> 0]
  /\ transferQueue = <<>>
  /\ exec = <<>>
  /\ hookTransfers = [id \in Ids |-> 0]
  /\ ret = NoCall
  /\ ticks = 0
  /\ updateInterval = "set"
  /\ InitRemote

NextHealth == UpdateHealthData

SpecHealth == InitHealth /\ [][NextHealth]_vars

(***************************************************************************)
(* The refresh with failing checks.  checkStationHealth as written cannot  *)
(* raise (it only does arithmetic on the stored snapshot); it stands for a *)
(* query of the subnet, and updateHealthData guards each call with its own *)
(* try/catch.  Here the check of at most one station fails in a tick.      *)
(***************************************************************************)
FailingChecks == {{}} \cup {{s} : s \in Stations}

NextRefresh == \E failing \in FailingChecks : UpdateHealthDataCatching(failing)

SpecRefresh == InitHealth /\ [][NextRefresh]_vars

(***************************************************************************)
(* initiateTransfer at the limits of the accepted size.  Every station is  *)
(* healthy; the requests differ in their size only, and the executor runs  *)
(* the accepted ones.                                                      *)
(***************************************************************************)
HundredGiB == [gib |-> MaxDataSizeGiB, rem |-> 0]

BoundarySizes ==
  { [gib |-> 0, rem |-> 0], OneByte, HundredGiB, [gib |-> MaxDataSizeGiB, rem |-> 1] }

SizeRequests ==
  { Request(id, "bangalore", "delhi", dataSize) : id \in Ids, dataSize \in BoundarySizes }

InitSize ==
  /\ healthData =
       [s \in Stations |->
          [stationId |-> s, uptime |-> InitUptime, consensusRate |-> InitConsensusRate,
           networkLatency |-> InitLatency, dataThroughput |-> InitThroughput]]
  /\ transfers = <<>>
  /\ activeTransfers = [id \in Ids |-> 0]
  /\ transferQueue = <<>>
  /\ exec = <<>>
  /\ hookTransfers = [id \in Ids |-> 0]
  /\ ret = NoCall
  /\ ticks = 0
  /\ updateInterval = "set"
  /\ InitRemote

NextSize ==
  \/ \E request \in SizeRequests : InitiateTransfer(request)
  \/ \E o \in DOMAIN transfers : TimerStep(o)

SpecSize == InitSize /\ [][NextSize]_vars

(***************************************************************************)
(* The routing rule on its own.  Both copies take any two strings: the     *)
(* stations of the registry, and strings that are no station, among them   *)
(* one that differs from the hub's name in its case only.                  *)
(***************************************************************************)
RouteInputs == Stations \cup InheritedKeys \cup {"mars", "", "Bangalore"}

\* the manager's copy, as executeTransfer calls it
ManagerRouteCall(fromStation, toStation) ==
  /\ ret' = [op |-> "SecureTransferManager.getTransferRoute", id |-> NoId,
             fromStation |-> fromStation, toStation |-> toStation,
             result |-> GetTransferRoute(fromStation, toStation)]
  /\ UNCHANGED <<remoteVars, healthVars, managerVars, hookTransfers>>

\* the hook's copy, as the page calls it to display the route
HookRouteCall(fromStation, toStation) ==
  /\ ret' = [op |-> "useAvalancheSubnet.getTransferRoute", id |-> NoId,
             fromStation |-> fromStation, toStation |-> toStation,
             result |-> HookGetTransferRoute(fromStation, toStation)]
  /\ UNCHANGED <<remoteVars, healthVars, managerVars, hookTransfers>>

NextRoute ==
  \/ \E a \in RouteInputs, b \in RouteInputs : ManagerRouteCall(a, b)
  \/ \E a \in RouteInputs, b \in RouteInputs : HookRouteCall(a, b)

\* nothing runs before the first call
InitRoute == InitSize

SpecRoute == InitRoute /\ [][NextRoute]_vars

(***************************************************************************)
(* isStationHealthy on its own, applied to snapshots on either side of     *)
(* each threshold and to ids that have no snapshot.  The refresh keeps     *)
(* uptime and consensus rate above their thresholds, so the snapshots are  *)
(* drawn from the SubnetHealth type rather than reached by ticks.          *)
(***************************************************************************)
ThresholdSnapshots ==
  { [uptime |-> u, consensusRate |-> c, networkLatency |-> l,
     dataThroughput |-> InitThroughput] :
      u \in {MinUptime - 1, MinUptime},
      c \in {MinConsensusRate - 1, MinConsensusRate},
      l \in {MaxLatency - 1, MaxLatency} }

\* ids the page may ask about: the stations, and ids no snapshot exists for
HealthQueryIds == Stations \cup InheritedKeys \cup {"mars", ""}

InitThreshold ==
  /\ \E snapshot \in [DriftedStations -> ThresholdSnapshots] :
       healthData =
         [s \in Stations |->
            IF s \in DriftedStations THEN [stationId |-> s] @@ snapshot[s]
            ELSE [stationId |-> s, uptime |-> InitUptime, consensusRate |-> InitConsensusRate,
                  networkLatency |-> InitLatency, dataThroughput |-> InitThroughput]]
  /\ transfers = <<>>
  /\ activeTransfers = [id \in Ids |-> 0]
  /\ transferQueue = <<>>
  /\ exec = <<>>
  /\ hookTransfers = [id \in Ids |-> 0]
  /\ ret = NoCall
  /\ ticks = 0
  /\ updateInterval = "set"
  /\ InitRemote

\* the hook's isStationHealthy, which forwards to the monitor's
IsStationHealthyCall(stationId) ==
  /\ ret' = [op |-> "isStationHealthy", id |-> stationId,
             result |-> Bool(IsStationHealthy(stationId))]
  /\ UNCHANGED <<remoteVars, healthVars, managerVars, hookTransfers>>

NextThreshold == \E stationId \in HealthQueryIds : IsStationHealthyCall(stationId)

SpecThreshold == InitThreshold /\ [][NextThreshold]_vars

(***************************************************************************)
(* The monitor with its cleanup, which the hook calls when it unmounts,    *)
(* and the page reading snapshots.                                         *)
(***************************************************************************)
NextCleanup ==
  \/ UpdateHealthData
  \/ Cleanup
  \/ \E stationId \in HealthQueryIds : GetStationHealth(stationId)

SpecCleanup == InitHealth /\ [][NextCleanup]_vars

(***************************************************************************)
(* The proof classes (ZKPCircuitManager and the four ...ZKP classes of     *)
(* src/client/utils/avalanche.ts, lines 616-1200).  A proof is the record  *)
(* generateMockProof returns: the fixed pi_a and the list of public        *)
(* signals; pi_b, pi_c and the fields copied beside them are not read by   *)
(* any verifier and are left out.  verify... is applied to the proof the   *)
(* matching generate... has just returned.                                 *)
(***************************************************************************)
\* nPublic of the one verification key loadVerificationKeys registers under
\* all four circuit names
NPublic == 4
CircuitNames == {"dataIntegrity", "stationAuth", "transferValidation", "missionCompletion"}
VerificationKeys == [c \in CircuitNames |-> [protocol |-> "groth16", nPublic |-> NPublic]]

\* bytesToHex(sha256(x)): a digest determined by x
Sha256Hex(x) == <<"sha256", x>>

\* generateNonce hashes Date.now() and Math.random(): some digest
Nonces == {Sha256Hex("1700000000000" \o "0.25"), Sha256Hex("1700000000001" \o "0.75")}

PiA == <<"0x123", "0x456", "0x789">>

MockProof(publicSignals) == [pi_a |-> PiA, publicSignals |-> publicSignals]

\* the publicSignals each class's generateMockProof builds
DataIntegritySignals(data, stationId, timestamp, nonce) ==
  <<Sha256Hex(data), stationId, ToString(timestamp), nonce>>

StationAuthSignals(stationId, timestamp, nonce) ==
  <<stationId, ToString(timestamp), nonce>>

TransferValidationSignals(transferId, dataSize, checksum, timestamp) ==
  <<transferId, ToString(dataSize), checksum, ToString(timestamp)>>

MissionCompletionSignals(missionId, completionTime, successRate, dataIntegrity) ==
  <<missionId, ToString(completionTime), ToString(successRate), Bool(dataIntegrity)>>

\* verifyMockProof, the same in the four classes
VerifyMockProof(proof, vk) ==
  Len(proof.pi_a) = 3 /\ Len(proof.publicSignals) = vk.nPublic

\* verify...Proof of the class of circuitName: getVerificationKey gives the
\* key or null, and the call returns false when there is none
VerifyProof(circuitName, proof) ==
  IF circuitName \notin DOMAIN VerificationKeys THEN FALSE
  ELSE VerifyMockProof(proof, VerificationKeys[circuitName])

Timestamps == {0, 1700000000}

Returned(op, result) == [op |-> op, id |-> NoId, result |-> result]

GenerateDataIntegrityProof ==
  /\ \E data \in {"", "telemetry"}, stationId \in Stations, timestamp \in Timestamps,
        nonce \in Nonces :
       ret' = Returned("generateDataIntegrityProof",
                       MockProof(DataIntegritySignals(data, stationId, timestamp, nonce)))
  /\ UNCHANGED <<remoteVars, healthVars, managerVars, hookTransfers>>

GenerateStationAuthProof ==
  /\ \E stationId \in Stations, timestamp \in Timestamps, nonce \in Nonces :
       ret' = Returned("generateStationAuthProof",
                       MockProof(StationAuthSignals(stationId, timestamp, nonce)))
  /\ UNCHANGED <<remoteVars, healthVars, managerVars, hookTransfers>>

GenerateTransferValidationProof ==
  /\ \E transferId \in Ids, dataSize \in {0, 1024}, checksum \in {"", "abc"},
        timestamp \in Timestamps :
       ret' = Returned("generateTransferValidationProof",
                       MockProof(TransferValidationSignals(transferId, dataSize, checksum, timestamp)))
  /\ UNCHANGED <<remoteVars, healthVars, managerVars, hookTransfers>>

GenerateMissionCompletionProof ==
  /\ \E missionId \in {"m1"}, completionTime \in Timestamps, successRate \in {0, 95},
        dataIntegrity \in BOOLEAN :
       ret' = Returned("generateMissionCompletionProof",
                       MockProof(MissionCompletionSignals(missionId, completionTime,
                                                          successRate, dataIntegrity)))
  /\ UNCHANGED <<remoteVars, healthVars, managerVars, hookTransfers>>

\* verify...Proof called with the proof that generate...Proof has just returned
VerifyReturnedProof(generateOp, verifyOp, circuitName) ==
  /\ ret.op = generateOp
  /\ ret' = [op |-> verifyOp, id |-> NoId, proof |-> ret.result,
             result |-> Bool(VerifyProof(circuitName, ret.result))]
  /\ UNCHANGED <<remoteVars, healthVars, managerVars, hookTransfers>>

NextZKP ==
  \/ GenerateDataIntegrityProof
  \/ GenerateStationAuthProof
  \/ GenerateTransferValidationProof
  \/ GenerateMissionCompletionProof
  \/ VerifyReturnedProof("generateDataIntegrityProof", "verifyDataIntegrityProof",
                         "dataIntegrity")
  \/ VerifyReturnedProof("generateStationAuthProof", "verifyStationAuthProof",
                         "stationAuth")
  \/ VerifyReturnedProof("generateTransferValidationProof", "verifyTransferValidationProof",
                         "transferValidation")
  \/ VerifyReturnedProof("generateMissionCompletionProof", "verifyMissionCompletionProof",
                         "missionCompletion")

InitZKP == InitSize

SpecZKP == InitZKP /\ [][NextZKP]_vars

(***************************************************************************)
(* The data transfer contract on its own, from its deployment.             *)
(***************************************************************************)
SpecContract == InitSize /\ [][NextContract]_vars

(***************************************************************************)
(* The token contract on its own, from its deployment.                     *)
(***************************************************************************)
SpecToken == InitSize /\ [][NextToken]_vars

(***************************************************************************)
(* The orchestrator hook on its own, from its mount.                       *)
(***************************************************************************)
SpecOrchestrator == InitSize /\ [][NextOrchestrator]_vars

(***************************************************************************)
(* Properties.                                                             *)
(***************************************************************************)
\* the status the manager holds for an id, "absent" for an id it does not know
ManagerStatus(id) ==
  IF Lookup(activeTransfers, id) = 0 THEN "absent"
  ELSE transfers[activeTransfers[id]].status

Terminal(status) == status \in {"completed", "failed", "cancelled"}

\* C1: when initiateTransfer returns the id of an accepted request, the
\* TransferState of that id is 'pending' with progress 0, current station the
\* source and next station the destination.
C1_PendingWhenSubmitReturns ==
  (ret.op = "initiateTransfer" /\ ret.result = "id") =>
    LET o == Lookup(activeTransfers, ret.id) IN
      /\ o # 0
      /\ transfers[o].status = "pending"
      /\ transfers[o].progress = 0
      /\ transfers[o].currentStation = exec[o].request.fromStation
      /\ transfers[o].nextStation = exec[o].request.toStation

\* C2: at most one transfer has status 'processing' in any reachable state.
C2_AtMostOneProcessing ==
  Cardinality({o \in DOMAIN transfers : transfers[o].status = "processing"}) <= 1

\* C3: a terminal status is absorbing: no step changes the status of a transfer
\* that is completed, failed or cancelled.
C3_TerminalAbsorbing ==
  [][\A o \in DOMAIN transfers :
       Terminal(transfers[o].status) => transfers'[o].status = transfers[o].status]_vars

\* C4: every accepted transfer that is never stopped or cancelled ends
\* 'completed' with progress 100: stated on the run's last step, when the
\* executor of a transfer nobody stopped has returned.
C4_FinishedMeansCompleted ==
  \A o \in DOMAIN transfers :
    (exec[o].pc = "done" /\ transfers[o].error = NoError) =>
      (transfers[o].status = "completed" /\ transfers[o].progress = 100)

\* C5: for every tracked transfer, progress is 100 if and only if its status
\* is 'completed'.
C5_FullProgressIffCompleted ==
  \A o \in DOMAIN transfers :
    (transfers[o].progress = 100) <=> (transfers[o].status = "completed")

\* C6: while a transfer is processing, its progress never decreases from one
\* step to the next.
C6_ProgressMonotone ==
  [][\A o \in DOMAIN transfers :
       (transfers[o].status = "processing" /\ transfers'[o].status = "processing")
         => transfers'[o].progress >= transfers[o].progress]_vars

\* C7: stopTransfer(id) returns true, and fails the transfer with the user-stop
\* message, exactly when the manager's TransferState of id is 'processing' at
\* the call; otherwise it returns false and changes no transfer.
C7_StopExactlyWhenProcessing ==
  [][ret'.op = "stopTransfer" =>
       IF ManagerStatus(ret'.id) = "processing"
       THEN /\ ret'.result = "true"
            /\ transfers'[activeTransfers[ret'.id]].status = "failed"
            /\ transfers'[activeTransfers[ret'.id]].error = "Transfer stopped by user"
       ELSE /\ ret'.result = "false"
            /\ UNCHANGED managerVars]_vars

C9_CancelRefusedIsNoOp ==
  [][(ret'.op = "cancelTransfer" /\ ManagerStatus(ret'.id) # "pending") =>
       /\ ret'.result = "false"
       /\ UNCHANGED managerVars]_vars

\* a cancel of a known transfer that is being processed has just returned false
C9_Witness ==
  /\ ret.op = "cancelTransfer"
  /\ ret.result = "false"
  /\ ManagerStatus(ret.id) = "processing"

\* C10: a structurally valid request whose source or destination is unhealthy
\* is rejected with the 'unhealthy' error, and the tracked transfers, the map
\* and the queue are as they were before the call.
C10_UnhealthyRejected ==
  [][ret'.op = "initiateTransfer" =>
       \A request \in Requests \cup {Request(id, a[1], a[2], a[3]) : id \in Ids, a \in StartArgs} :
         ( /\ ValidateTransferRequest(request)
           /\ ~(IsStationHealthy(request.fromStation) /\ IsStationHealthy(request.toStation))
           /\ InitiateTransfer(request) )
         => /\ ret'.result = "One or both stations are unhealthy"
            /\ UNCHANGED managerVars]_vars

\* a request has just been refused as unhealthy while a transfer is tracked
C10_Witness ==
  /\ ret.op = "initiateTransfer"
  /\ ret.result = "One or both stations are unhealthy"
  /\ Len(transfers) > 0
  /\ \E s \in Stations : ~IsStationHealthy(s)

\* the size of a request is within the accepted range: 0 < size <= 100 GiB
SizeInRange(dataSize) ==
  /\ (dataSize.gib > 0 \/ dataSize.rem > 0)
  /\ (dataSize.gib < MaxDataSizeGiB \/ (dataSize.gib = MaxDataSizeGiB /\ dataSize.rem = 0))

\* C11: a request with an empty id, a source or destination that is no station
\* of the registry, or a size out of range is rejected with the validation
\* error, and the tracked transfers, the map and the queue are as they were.
C11_InvalidRejectedFirst ==
  [][ret'.op = "initiateTransfer" =>
       \A request \in Requests :
         ( /\ \/ request.id = ""
              \/ request.fromStation \notin Stations
              \/ request.toStation \notin Stations
              \/ ~SizeInRange(request.dataSize)
           /\ InitiateTransfer(request) )
         => /\ ret'.result = "Invalid transfer request"
            /\ UNCHANGED managerVars]_vars

\* C12: with a non-empty id and two registered healthy stations, a request of
\* exactly 100 GiB and a request of 1 byte are accepted (the call returns the
\* id and the request is tracked), and a request of 100 GiB + 1 byte and a
\* request of 0 bytes are rejected with the validation error.
C12_SizeBoundary ==
  [][ret'.op = "initiateTransfer" =>
       \A request \in SizeRequests :
         InitiateTransfer(request) =>
           IF request.dataSize \in {OneByte, HundredGiB}
           THEN /\ ret'.result = "id"
                /\ ret'.id = request.id
                /\ Len(transfers') = Len(transfers) + 1
                /\ exec'[Len(transfers')].request = request
           ELSE /\ ret'.result = "Invalid transfer request"
                /\ UNCHANGED managerVars]_vars

\* a request of exactly 100 GiB is tracked and another one has just been
\* rejected by validation
C12_Witness ==
  /\ ret.op = "initiateTransfer"
  /\ ret.result = "Invalid transfer request"
  /\ \E o \in DOMAIN transfers : exec[o].request.dataSize = HundredGiB

\* C13: after any number of refresh ticks from the initial snapshots, every
\* registered station is healthy.
C13_AlwaysHealthy ==
  \A s \in Stations : IsStationHealthy(s)

C15_RoutingRule ==
  (ret.op \in {"SecureTransferManager.getTransferRoute",
               "useAvalancheSubnet.getTransferRoute"}) =>
    LET a == ret.fromStation
        b == ret.toStation
        route == ret.result
    IN /\ (a = b) => route = <<a>>
       /\ (a # b /\ (a = "bangalore" \/ b = "bangalore")) => route = <<a, b>>
       /\ (a # b /\ a # "bangalore" /\ b # "bangalore") => route = <<a, "bangalore", b>>
       /\ route[1] = a
       /\ route[Len(route)] = b
       /\ GetTransferRoute(a, b) = HookGetTransferRoute(a, b)

\* the hook's copy has just routed a pair of different stations, neither the
\* hub, through the hub
C15_Witness ==
  /\ ret.op = "useAvalancheSubnet.getTransferRoute"
  /\ ret.fromStation = "chennai"
  /\ ret.toStation = "delhi"
  /\ Len(ret.result) = 3

\* the route of the request that created object o
RouteOf(e) == GetTransferRoute(e.request.fromStation, e.request.toStation)

\* the positions k at which (currentStation, nextStation) of t is the k-th
\* consecutive pair of route
Legs(t, route) ==
  {k \in 1..(Len(route) - 1) :
     t.currentStation = route[k] /\ t.nextStation = route[k + 1]}

\* C16: within one transfer the hops run in route order and the ten steps of
\* a hop run in order: a processing transfer stands on a consecutive pair of
\* its route, starting with the first; from one step to the next it stays on
\* its pair with progress advanced by one tenth, or moves to the next pair at
\* the first tenth; and a completed transfer's next station is the
\* destination of its request.
C16_HopsInRouteOrder ==
  [][\A o \in DOMAIN transfers' :
       LET t == transfers'[o]
           route == RouteOf(exec'[o])
       IN /\ t.status = "processing" => Legs(t, route) # {}
          /\ (t.status = "processing" /\ o \notin DOMAIN transfers)
               => (1 \in Legs(t, route) /\ t.progress = 10)
          /\ ( /\ o \in DOMAIN transfers
               /\ transfers[o].status = "processing"
               /\ t.status = "processing"
               /\ t # transfers[o] )
               => \E k \in Legs(transfers[o], route) :
                    \/ k \in Legs(t, route) /\ t.progress = transfers[o].progress + 10
                    \/ (k + 1) \in Legs(t, route) /\ t.progress = 10
          /\ t.status = "completed" => t.nextStation = exec'[o].request.toStation]_vars

StepIds ==
  IF ret'.op = "none"
  THEN {transfers[o].requestId : o \in {x \in DOMAIN transfers : exec'[x] # exec[x]}}
  ELSE {ret'.id}

\* C18: a step taken for one transfer (a step of its executor, a stop or a
\* cancel of it, the submission of another request) changes neither the
\* status, progress, stations or error of a transfer with a different request
\* id nor the position of that transfer's executor, so that the failure of one
\* transfer leaves every other transfer where it was on its way to completion.
C18_OtherTransfersUntouched ==
  [][/\ Cardinality(StepIds) <= 1
     /\ \A p \in DOMAIN transfers :
          transfers[p].requestId \notin StepIds
            => (transfers'[p] = transfers[p] /\ exec'[p] = exec[p])]_vars

\* a timer has just fired while one transfer is failed and a transfer with
\* another id has run to completion
C18_Witness ==
  /\ ret.op = "none"
  /\ \E a \in DOMAIN transfers, b \in DOMAIN transfers :
       /\ transfers[a].requestId # transfers[b].requestId
       /\ transfers[a].status = "failed"
       /\ exec[a].pc = "await"
       /\ transfers[b].status = "completed"

\* C19: every transfer whose status is 'failed' carries an error message that
\* is present and not empty.
C19_FailedHasError ==
  \A o \in DOMAIN transfers :
    transfers[o].status = "failed"
      => (transfers[o].error # NoError /\ transfers[o].error # "")

\* a transfer stopped by the user is failed while its executor still runs
C19_Witness ==
  \E o \in DOMAIN transfers :
    /\ transfers[o].status = "failed"
    /\ transfers[o].error = "Transfer stopped by user"
    /\ exec[o].pc = "await"
    /\ exec[o].step > 0

\* C20: every transfer whose status is 'completed' has progress exactly 100,
\* in every reachable state.
C20_CompletedHasFullProgress ==
  \A o \in DOMAIN transfers :
    transfers[o].status = "completed" => transfers[o].progress = 100

\* stopTransfer has just been called for a transfer that had completed, while
\* the executor of another transfer runs
C20_Witness ==
  /\ ret.op = "stopTransfer"
  /\ ManagerStatus(ret.id) = "completed"
  /\ transfers[activeTransfers[ret.id]].progress = 100
  /\ \E o \in DOMAIN transfers : exec[o].pc = "await"

\* C21: isStationHealthy(id) returns true exactly when a snapshot exists for
\* id with uptime >= 0.95, consensus rate >= 0.95 and latency below 150 ms,
\* and returns false for an id without a snapshot.
C21_HealthyIffWithinThresholds ==
  (ret.op = "isStationHealthy") =>
    /\ ret.result \in {"true", "false"}
    /\ (ret.result = "true") <=>
         /\ ret.id \in DOMAIN healthData
         /\ healthData[ret.id].uptime >= 950
         /\ healthData[ret.id].consensusRate >= 950
         /\ healthData[ret.id].networkLatency < 150

\* the call has just returned false for a station whose rates stand on their
\* thresholds and whose latency stands on 150 ms, while another station with
\* the same rates and a latency of 149 ms is healthy
C21_Witness ==
  /\ ret.op = "isStationHealthy"
  /\ ret.result = "false"
  /\ ret.id \in DOMAIN healthData
  /\ healthData[ret.id].uptime = 950
  /\ healthData[ret.id].consensusRate = 950
  /\ healthData[ret.id].networkLatency = 150
  /\ \E s \in Stations :
       /\ healthData[s].uptime = 950
       /\ healthData[s].consensusRate = 950
       /\ healthData[s].networkLatency = 149

\* C22: in a refresh tick in which the check of one station raises, that
\* station keeps its previous snapshot and every other station gets a
\* refreshed snapshot.
C22_FailedCheckIsIsolated ==
  [][ret'.op = "updateHealthData" =>
       \A s \in Stations :
         IF s \in ret'.failed
         THEN healthData'[s] = healthData[s]
         ELSE \E d \in (IF s \in DriftedStations THEN Draws ELSE {RandomMid}) :
                healthData'[s] = CheckStationHealth(healthData[s], d)]_vars

\* the check of chennai has just failed in a tick that moved delhi's snapshot
C22_Witness ==
  /\ ret.op = "updateHealthData"
  /\ ret.failed = {"chennai"}
  /\ ticks = 1
  /\ healthData["chennai"].uptime = InitUptime
  /\ healthData["delhi"].uptime # InitUptime

\* C23: cleanup halts the refresh: it leaves the interval cleared and the
\* snapshots as they are, no step after it changes a snapshot or sets the
\* interval again, a second cleanup changes nothing, and getStationHealth
\* still returns the snapshot of every station.
C23_CleanupHaltsRefresh ==
  [][/\ ret'.op = "cleanup" =>
          /\ updateInterval' = "null"
          /\ healthData' = healthData
          /\ updateInterval = "null" => UNCHANGED <<healthData, ticks, updateInterval>>
     /\ updateInterval = "null" =>
          (healthData' = healthData /\ updateInterval' = "null")
     /\ (ret'.op = "getStationHealth" /\ ret'.id \in Stations) =>
          ret'.result = healthData[ret'.id]]_vars

\* a snapshot has just been read after the monitor was cleaned up between two
\* ticks
C23_Witness ==
  /\ updateInterval = "null"
  /\ ret.op = "getStationHealth"
  /\ ret.id \in Stations
  /\ ticks > 0
  /\ ticks < MaxTicks

\* C24: from construction on, through every refresh tick and after cleanup,
\* the health map holds a snapshot for each station of the registry and for
\* no other id, and the stationId of each snapshot is its key.
C24_OneSnapshotPerStation ==
  /\ DOMAIN healthData = {"bangalore", "chennai", "delhi", "sriharikota"}
  /\ \A id \in DOMAIN healthData : healthData[id].stationId = id

\* the monitor has been cleaned up after its last tick, which moved a snapshot
C24_Witness ==
  /\ updateInterval = "null"
  /\ ticks = MaxTicks
  /\ ret.op = "cleanup"
  /\ healthData["delhi"].stationId = "delhi"
  /\ healthData["delhi"].uptime # InitUptime

\* C25: TransferStates are never evicted: the state created for an accepted
\* request is what getTransferStatus returns for its id, and is among the
\* states getAllTransfers returns, in every later state; for an id never
\* accepted getTransferStatus returns the absent value.
C25_NeverEvicted ==
  /\ \A o \in DOMAIN transfers :
       /\ GetTransferStatus(transfers[o].requestId) = o
       /\ o \in GetAllTransfers
  /\ \A id \in Ids \cup {"mars"} :
       (id \notin UsedIds) => GetTransferStatus(id) = 0

\* C26: accepting a request does not disturb a tracked transfer: when
\* initiateTransfer accepts an id the manager already holds, the map keeps the
\* TransferState it held for that id, with its fields as they were, and at
\* most one executor writes to the state of an id.
C26_DuplicateIdKeepsState ==
  [][(ret'.op = "initiateTransfer" /\ ret'.result = "id"
        /\ Lookup(activeTransfers, ret'.id) # 0) =>
       LET o == activeTransfers[ret'.id] IN
         /\ activeTransfers'[ret'.id] = o
         /\ transfers'[o] = transfers[o]
         /\ Cardinality({x \in DOMAIN transfers' :
                           /\ transfers'[x].requestId = ret'.id
                           /\ exec'[x].pc = "await"}) <= 1]_vars

\* C27: for each of the four kinds of proof, verifying the proof that the
\* matching generate operation has just returned gives true.
C27_GenerateVerifyRoundTrip ==
  (ret.op \in {"verifyDataIntegrityProof", "verifyStationAuthProof",
               "verifyTransferValidationProof", "verifyMissionCompletionProof"})
    => ret.result = "true"

\* every transfer the contract stores is Pending or Cancelled: no call writes
\* Processing, and Completed and Failed are written only over Processing
StatusNeverProcessing ==
  \A t \in isroDataTransfer.transfers : t.status \in {"Pending", "Cancelled"}

\* C28: a transfer created by initiateTransfer can be completed or failed by a
\* validator: when a validator calls completeTransfer or failTransfer on a
\* stored transfer that was not cancelled, the call is not refused for the
\* state the transfer is in.
C28_CreatedTransferCanBeCompleted ==
  (/\ ret.op \in {"ISRODataTransfer.completeTransfer", "ISRODataTransfer.failTransfer"}
   /\ isroDataTransfer.isValidator[ret.sender]
   /\ TransferExists(isroDataTransfer, ret.transfer)
   /\ StoredTransfer(isroDataTransfer, ret.transfer).status # "Cancelled")
  => ret.result # "ISRO: Transfer not in processing state"

\* the staked amounts of all accounts in one of the two staking mappings
TotalOf(stakes) ==
  stakes[Deployer].stakedAmount + stakes["stationA"].stakedAmount

\* C29: after any sequence of successful stake, stakeAsValidator and unstake
\* calls, totalStaked is the sum over all accounts of stakingInfo.stakedAmount
\* plus validatorStakes.stakedAmount.
C29_TotalStakedIsSumOfStakes ==
  isroToken.totalStaked
    = TotalOf(isroToken.stakingInfo) + TotalOf(isroToken.validatorStakes)

\* at least one refreshStatus, runMission or runIntegratedMission call has
\* started and not settled
InFlight ==
  \/ orchestrator.refreshStatus # "idle"
  \/ orchestrator.runMission # "idle"
  \/ orchestrator.runIntegratedMission # "idle"

\* C30: isLoading is true whenever at least one of refreshStatus, runMission
\* and runIntegratedMission is in flight, also when two of them overlap, and
\* false once all of them have settled.
C30_LoadingWhileInFlight == orchestrator.isLoading <=> InFlight

\* the half of C30 the hook keeps: with no call in flight isLoading is false
LoadingFalseWhenSettled == ~InFlight => ~orchestrator.isLoading
====
